---- MODULE Spec2Model ----
\* A model of the two just-mcp servers: the structured variant, which reads
\* `just --dump --dump-format json`, and the text variant, which reads `just -l`.
\* Both register one tool per recipe with a FastMCP server and run a recipe
\* through `bash -l -c 'just <recipe> "$@"' -- <args>`.
EXTENDS Integers, Sequences, FiniteSets, TLC

\* ------------------------------------------------------------------ bounds

MaxParams == 2
MaxKeys == 2
MaxFields == 2
MaxRecipes == 2
MaxLines == 2
MaxChunks == 2

\* ------------------------------------------------------- JavaScript values

\* A JavaScript value: undefined, null, a string, a number or an array of
\* strings. One record shape for all of them, so that any two compare.
JUndefined == [t |-> "undefined", s |-> "", a |-> <<>>]
JNull == [t |-> "null", s |-> "", a |-> <<>>]
JStr(s) == [t |-> "string", s |-> s, a |-> <<>>]
JArr(a) == [t |-> "array", s |-> "", a |-> a]
JNum(s) == [t |-> "number", s |-> s, a |-> <<>>]

IsArray(v) == v.t = "array"
IsString(v) == v.t = "string"

\* JavaScript truthiness: undefined, null, "" and 0 are falsy, arrays are truthy.
Truthy(v) ==
    CASE v.t = "undefined" -> FALSE
      [] v.t = "null" -> FALSE
      [] v.t = "string" -> v.s # ""
      [] v.t = "number" -> v.s # "0"
      [] OTHER -> TRUE

\* String.prototype.trim on the strings the model uses.
Trim(s) ==
    CASE s = " " -> ""
      [] s = " test " -> "test"
      [] s = " build" -> "build"
      [] OTHER -> s

Range(q) == {q[k] : k \in 1..Len(q)}

\* Array.prototype.map(f) for a function given as an operator.
MapTrim(q) == [k \in 1..Len(q) |-> Trim(q[k])]

\* All sequences over S of length lo..hi.
SeqsOf(S, lo, hi) == UNION {[1..n -> S] : n \in lo..hi}

\* ---------------------------------------------------------------- schemas

\* A zod schema node as createParameterSchema builds it: z.string() or
\* z.array(z.string()), .min(1) or not, .optional() or not, .describe(text).
\* The description is the template literal, piece by piece.
ZString(optional, description) ==
    [type |-> "string", optional |-> optional, min |-> 0, description |-> description]
ZArray(optional, min, description) ==
    [type |-> "array", optional |-> optional, min |-> min, description |-> description]

\* Lines 45-53: an array default is an expression; the field is optional.
ExpressionSchemaArrayRequired(param, recipeName) ==
    IF param.kind = "star" \/ param.kind = "plus"
    THEN ZArray(FALSE, 0, <<"Parameters for the ", recipeName,
             " recipe (default value is an expression in the Justfile)">>)
    ELSE ZString(TRUE, <<"Optional parameter ", param.name, " for the ", recipeName,
             " recipe (default value is an expression in the Justfile)">>)

ExpressionSchema(param, recipeName) ==
    IF param.kind = "star" \/ param.kind = "plus"
    THEN ZArray(TRUE, 0, <<"Parameters for the ", recipeName,
             " recipe (default value is an expression in the Justfile)">>)
    ELSE ZString(TRUE, <<"Optional parameter ", param.name, " for the ", recipeName,
             " recipe (default value is an expression in the Justfile)">>)

\* Lines 56-68: star and plus parameters.
VariadicSchemaNoMin(param, recipeName) ==
    IF param.kind = "plus"
    THEN IF Truthy(param.default)
         THEN ZArray(TRUE, 0, <<"Parameters for the ", recipeName,
                  " recipe (default: ", param.default.s, ")">>)
         ELSE ZArray(FALSE, 0, <<"Parameters for the ", recipeName,
                  " recipe (at least one required)">>)
    ELSE ZArray(TRUE, 0, <<"Parameters for the ", recipeName, " recipe (not required)">>)

VariadicSchema(param, recipeName) ==
    IF param.kind = "plus"
    THEN IF Truthy(param.default)
         THEN ZArray(TRUE, 0, <<"Parameters for the ", recipeName,
                  " recipe (default: ", param.default.s, ")">>)
         ELSE ZArray(FALSE, 1, <<"Parameters for the ", recipeName,
                  " recipe (at least one required)">>)
    ELSE ZArray(TRUE, 0, <<"Parameters for the ", recipeName, " recipe (not required)">>)

\* Lines 70-76: a singular parameter.
SingularSchema(param, recipeName) ==
    IF Truthy(param.default)
    THEN ZString(TRUE, <<"Optional parameter ", param.name,
             " (default: ", param.default.s, ")">>)
    ELSE ZString(FALSE, <<"Required parameter ", param.name>>)

createParameterSchema(param, recipeName) ==
    IF IsArray(param.default)
    THEN ExpressionSchema(param, recipeName)
    ELSE IF param.kind = "star" \/ param.kind = "plus"
         THEN VariadicSchema(param, recipeName)
         ELSE SingularSchema(param, recipeName)

\* The text variant's schema for a task parameter (just.ts, the registration loop).
taskParameterSchema(param, taskName) ==
    IF param.isVarArgs
    THEN ZArray(FALSE, 0, <<"Variable arguments for the ", taskName, " task">>)
    ELSE ZString(FALSE, <<"Parameter ", param.name, " for the ", taskName, " task">>)

\* z.object(Object.fromEntries(parameters.map(...))): the fields in declaration order.
recipeSchema(recipe) ==
    [k \in 1..Len(recipe.parameters) |->
        [key |-> recipe.parameters[k].name,
         node |-> createParameterSchema(recipe.parameters[k], recipe.name)]]

taskSchema(task) ==
    [k \in 1..Len(task.parameters) |->
        [key |-> task.parameters[k].name,
         node |-> taskParameterSchema(task.parameters[k], task.name)]]

\* ------------------------------------------------------------------ state

VARIABLES
    variant,    \* "structured" (the JSON dump server) or "text" (the `just -l` server)
    env,        \* the process environment: ALLOWED, ENABLE_DEBUG_TOOL, SHOW_RECIPES
    denoArgs,   \* Deno.args, passed on to just by the structured variant
    just,       \* what running just in PROJECT gives: found, exit code, standard output
    pc,         \* position of the top-level module code
    recipes,    \* what getJustRecipes / getJustTasks returned
    idx,        \* position of the registration loop in recipes
    tools,      \* the tools added to the FastMCP server, in order
    log,        \* lines written to the console
    exitCode,   \* the process's exit code, -1 while it runs
    call,       \* the tool call being executed
    child,      \* the spawned bash process of the call
    output,     \* executeRecipe's output buffer
    arrived,    \* the chunks the two stream readers were handed, in order
    result,     \* what the last tool call returned to the client
    marshal     \* an application of processParameters on its own

vars == <<variant, env, denoArgs, just, pc, recipes, idx, tools, log, exitCode,
          call, child, output, arrived, result, marshal>>

configVars == <<variant, env, denoArgs, just>>
startVars == <<pc, recipes, idx, tools, log, exitCode>>
callVars == <<call, child, output, arrived, result>>

\* ------------------------------------------------------------ environment

\* An environment variable that is not set.
Unset == [set |-> FALSE, fields |-> <<>>]
\* An environment variable holding a string, given by its comma-separated
\* fields: "" is <<"">>, " build,test" is <<" build", "test">>.
SetTo(fields) == [set |-> TRUE, fields |-> fields]

\* str.trim() === "" for a string given by its fields: a comma is not blank.
TrimIsEmpty(fields) == Len(fields) = 1 /\ Trim(fields[1]) = ""

NoList == [isNull |-> TRUE, list |-> <<>>]
List(q) == [isNull |-> FALSE, list |-> q]

\* part_000 lines 10-11:
\* (Deno.env.get("ALLOWED_RECIPES")?.trim() || null)?.split(",").map(trim) ?? null
ALLOWED_RECIPES ==
    IF ~env.ALLOWED.set \/ TrimIsEmpty(env.ALLOWED.fields)
    THEN NoList
    ELSE List(MapTrim(env.ALLOWED.fields))

\* just.ts lines 9-10: Deno.env.get("ALLOWED_TASKS")?.split(",").map(trim) ?? null
ALLOWED_TASKS ==
    IF ~env.ALLOWED.set
    THEN NoList
    ELSE List(MapTrim(env.ALLOWED.fields))

\* Array.prototype.includes
Includes(q, x) == \E k \in 1..Len(q) : q[k] = x

\* part_000 line 183: the recipe is skipped unless this holds.
RecipeAllowedIgnoringList(recipeName) == TRUE

RecipeAllowed(recipeName) ==
    ~(~ALLOWED_RECIPES.isNull /\ ~Includes(ALLOWED_RECIPES.list, recipeName))

\* just.ts line 48: the task is skipped unless this holds.
TaskAllowed(taskName) ==
    ~(~ALLOWED_TASKS.isNull /\ ~Includes(ALLOWED_TASKS.list, taskName))

\* ---------------------------------------------------------------- console

Stderr(text) == [out |-> "stderr", text |-> text]
Stdout(text) == [out |-> "stdout", text |-> text]

\* zodToJsonSchema(parameters), part_000 line 191: the JSON Schema of the
\* object schema. Every field becomes a property, a string or an array of
\* strings with its description, minItems standing for .min(1); the fields
\* that are not optional are listed under "required".
zodToJsonSchema(parameters) ==
    LET needed == SelectSeq(parameters, LAMBDA f : ~f.node.optional)
    IN [type |-> "object",
        properties |-> [k \in 1..Len(parameters) |->
            [key |-> parameters[k].key,
             type |-> parameters[k].node.type,
             items |-> IF parameters[k].node.type = "array" THEN "string" ELSE "",
             minItems |-> parameters[k].node.min,
             description |-> parameters[k].node.description]],
        required |-> [k \in 1..Len(needed) |-> needed[k].key]]

\* console.log({ recipeName, recipe, schema }), part_000 line 192.
ShownRecipe(recipe) ==
    Stdout(<<"recipeName", recipe.name>>)
        @@ [recipe |-> recipe, schema |-> zodToJsonSchema(recipeSchema(recipe))]

\* ------------------------------------------------------------------ tools

\* The diagnostic tool (part_000 lines 172-177, just.ts lines 149-154).
cwdTool ==
    [name |-> "cwd", kind |-> "debug",
     description |-> <<"Get the working directory that the MCP server is running in">>,
     parameters |-> <<>>, params |-> <<>>]

\* recipe.doc || `Run the ${recipeName} recipe`
recipeDescription(recipe) ==
    IF Truthy(recipe.doc) THEN <<recipe.doc.s>> ELSE <<"Run the ", recipe.name, " recipe">>

\* The tool of part_000 lines 196-212; params is the recipe.parameters its closure holds.
recipeTool(recipe) ==
    [name |-> recipe.name, kind |-> "recipe",
     description |-> recipeDescription(recipe),
     parameters |-> recipeSchema(recipe), params |-> recipe.parameters]

\* The tool of just.ts lines 171-187.
taskTool(task) ==
    [name |-> task.name, kind |-> "recipe",
     description |-> task.description,
     parameters |-> taskSchema(task), params |-> task.parameters]

\* ------------------------------------------------- the text recipe listing

\* A line of `just -l` is given by its whitespace-separated tokens; the
\* character-level functions the code applies are tabulated on the tokens used.

\* The longest prefix of word characters (\w+), "" if the token starts with none.
WordPrefix(tok) ==
    CASE tok = "recipes:" -> "recipes"
      [] tok = "run-all" -> "run"
      [] tok \in {"$env", "*test_files", "+files", "#"} -> ""
      [] OTHER -> tok

\* String.prototype.startsWith for a one-character prefix.
StartsWith(tok, ch) ==
    CASE tok = "$env" -> ch = "$"
      [] tok = "*test_files" -> ch = "*"
      [] tok = "+files" -> ch = "+"
      [] tok = "#" -> ch = "#"
      [] OTHER -> FALSE

\* String.prototype.slice(1) on the marked tokens.
Slice1(tok) ==
    CASE tok = "$env" -> "env"
      [] tok = "*test_files" -> "test_files"
      [] tok = "+files" -> "files"
      [] OTHER -> tok

\* line.match(/^\s*(\w+)(?:\s+([^#]*))?(?:\s*#\s*(.*))?/) succeeds when the
\* line's first token starts with a word character.
LineMatches(line) == Len(line) > 0 /\ WordPrefix(line[1]) # ""

\* Group 1.
MatchedName(line) == WordPrefix(line[1])

\* The first token from the second on that starts a comment, else Len + 1.
FirstHash(line) ==
    IF \E k \in 2..Len(line) : line[k] = "#"
    THEN CHOOSE k \in 2..Len(line) : line[k] = "#" /\ \A j \in 2..(k - 1) : line[j] # "#"
    ELSE Len(line) + 1

\* Group 2, split at whitespace: present only when white space follows the name.
MatchedArgs(line) ==
    IF WordPrefix(line[1]) = line[1] THEN SubSeq(line, 2, FirstHash(line) - 1) ELSE <<>>

\* Group 3, the words of the comment.
MatchedComment(line) ==
    IF WordPrefix(line[1]) = line[1] THEN SubSeq(line, FirstHash(line) + 1, Len(line)) ELSE <<>>

\* just.ts lines 53-60.
taskParameters(argTokens) ==
    [k \in 1..Len(argTokens) |->
        [name |-> IF StartsWith(argTokens[k], "$") \/ StartsWith(argTokens[k], "*")
                  THEN Slice1(argTokens[k]) ELSE argTokens[k],
         isVarArgs |-> StartsWith(argTokens[k], "*")]]

\* just.ts lines 62-66.
parsedTask(line) ==
    [name |-> MatchedName(line),
     description |-> IF MatchedComment(line) # <<>> THEN MatchedComment(line)
                     ELSE <<"Run the ", MatchedName(line), " task">>,
     parameters |-> taskParameters(MatchedArgs(line))]

\* just.ts lines 39-67: the tasks of the lines that match and pass the allow-list.
parseTaskList(listing) ==
    LET kept == SelectSeq(listing, LAMBDA l : LineMatches(l) /\ TaskAllowed(MatchedName(l)))
    IN [k \in 1..Len(kept) |-> parsedTask(kept[k])]

\* ---------------------------------------------------------------- startup

Undefined == [defined |-> FALSE, list |-> <<>>]
Defined(q) == [defined |-> TRUE, list |-> q]

\* A mutant: the process ends with code 0.
ExitZero(code) == pc' = "exited" /\ exitCode' = 0

\* Deno.exit(code), or the runtime ending the process on an uncaught error.
Exit(code) == pc' = "exited" /\ exitCode' = code

\* just.ts lines 143-146.
LogStartup ==
    /\ variant = "text" /\ pc = "log"
    /\ log' = log \o
         (<<Stderr(<<"Starting just MCP server for PROJECT">>)>> \o
          IF ~ALLOWED_TASKS.isNull THEN <<Stderr(<<"Filtering tasks to:">>)>> ELSE <<>>)
    /\ pc' = "debug"
    /\ UNCHANGED <<configVars, recipes, idx, tools, exitCode, callVars, marshal>>

\* part_000 lines 171-178, just.ts lines 148-155.
AddDebugTool ==
    /\ pc = "debug"
    /\ tools' = IF Truthy(env.ENABLE_DEBUG_TOOL) THEN Append(tools, cwdTool) ELSE tools
    /\ pc' = "read"
    /\ UNCHANGED <<configVars, recipes, idx, log, exitCode, callVars, marshal>>

\* part_000 lines 82-100: just is run and its standard output parsed; whatever
\* is thrown is logged and ends the process with code 1.
getJustRecipes ==
    /\ variant = "structured" /\ pc = "read"
    /\ IF ~just.found
       THEN /\ log' = Append(log, Stderr(<<"Error getting just recipes:", "NotFound">>))
            /\ Exit(1)
            /\ UNCHANGED recipes
       ELSE IF just.json = "invalid"
       THEN /\ log' = Append(log, Stderr(<<"Error getting just recipes:", "SyntaxError">>))
            /\ Exit(1)
            /\ UNCHANGED recipes
       ELSE IF just.json = "null"
       THEN /\ log' = Append(log, Stderr(<<"Error getting just recipes:", "TypeError">>))
            /\ Exit(1)
            /\ UNCHANGED recipes
       ELSE /\ recipes' = IF just.hasRecipes THEN Defined(just.recipes) ELSE Undefined
            /\ pc' = "loop"
            /\ UNCHANGED <<log, exitCode>>
    /\ UNCHANGED <<configVars, idx, tools, callVars, marshal>>

\* part_000 line 182: Object.entries(undefined) throws outside any try; the
\* runtime reports the uncaught error and ends the process with code 1.
ObjectEntriesThrows ==
    /\ variant = "structured" /\ pc = "loop" /\ ~recipes.defined
    /\ log' = Append(log, Stderr(<<"error: Uncaught", "TypeError">>))
    /\ Exit(1)
    /\ UNCHANGED <<configVars, recipes, idx, tools, callVars, marshal>>

\* part_000 lines 182-213: one iteration of the registration loop.
RegisterRecipe ==
    /\ variant = "structured" /\ pc = "loop" /\ recipes.defined
    /\ idx <= Len(recipes.list)
    /\ LET recipe == recipes.list[idx] IN
       IF ~RecipeAllowed(recipe.name)
       THEN UNCHANGED <<tools, log>>
       ELSE IF Truthy(env.SHOW_RECIPES)
       THEN /\ log' = Append(log, ShownRecipe(recipe))
            /\ UNCHANGED tools
       ELSE /\ tools' = Append(tools, recipeTool(recipe))
            /\ UNCHANGED log
    /\ idx' = idx + 1
    /\ UNCHANGED <<configVars, pc, recipes, exitCode, callVars, marshal>>

\* A mutant: the exit of line 216 is missing and the server starts.
ShowRecipesExitMissing ==
    /\ variant = "structured" /\ pc = "loop" /\ recipes.defined
    /\ idx > Len(recipes.list)
    /\ Truthy(env.SHOW_RECIPES)
    /\ pc' = "serving"
    /\ UNCHANGED <<configVars, recipes, idx, tools, log, exitCode, callVars, marshal>>

\* part_000 lines 215-217.
ShowRecipesExit ==
    /\ variant = "structured" /\ pc = "loop" /\ recipes.defined
    /\ idx > Len(recipes.list)
    /\ Truthy(env.SHOW_RECIPES)
    /\ Exit(0)
    /\ UNCHANGED <<configVars, recipes, idx, tools, log, callVars, marshal>>

\* part_000 lines 219-226.
StartServer ==
    /\ variant = "structured" /\ pc = "loop" /\ recipes.defined
    /\ idx > Len(recipes.list)
    /\ ~Truthy(env.SHOW_RECIPES)
    /\ log' = log \o
         <<Stderr(<<"Starting just MCP server for PROJECT">>),
           Stderr(IF ~ALLOWED_RECIPES.isNull THEN <<"Filtering recipes to:">>
                  ELSE <<"All Just recipes are exposed to the client">>)>>
    /\ pc' = "serving"
    /\ UNCHANGED <<configVars, recipes, idx, tools, exitCode, callVars, marshal>>

\* just.ts lines 27-77: a failure to run just is logged and gives no tasks.
getJustTasks ==
    /\ variant = "text" /\ pc = "read"
    /\ IF ~just.found
       THEN /\ log' = Append(log, Stderr(<<"Error getting just tasks:", "NotFound">>))
            /\ recipes' = Defined(<<>>)
       ELSE /\ recipes' = Defined(parseTaskList(just.listing))
            /\ UNCHANGED log
    /\ pc' = "loop"
    /\ UNCHANGED <<configVars, idx, tools, exitCode, callVars, marshal>>

\* just.ts lines 159-188: one iteration of the registration loop.
RegisterTask ==
    /\ variant = "text" /\ pc = "loop"
    /\ idx <= Len(recipes.list)
    /\ tools' = Append(tools, taskTool(recipes.list[idx]))
    /\ idx' = idx + 1
    /\ UNCHANGED <<configVars, pc, recipes, log, exitCode, callVars, marshal>>

\* just.ts line 190.
StartTaskServer ==
    /\ variant = "text" /\ pc = "loop"
    /\ idx > Len(recipes.list)
    /\ pc' = "serving"
    /\ UNCHANGED <<configVars, recipes, idx, tools, log, exitCode, callVars, marshal>>

\* ------------------------------------------------------ argument marshalling

\* A value map is the sequence of its [key, value] entries in Object.entries
\* order (the keys are distinct; none is an integer index).
Entry(key, value) == [key |-> key, value |-> value]

\* parameters.find((p) => p.name === name): the index of the first, 0 for undefined.
FindIndex(parameters, name) ==
    IF \E k \in 1..Len(parameters) : parameters[k].name = name
    THEN CHOOSE k \in 1..Len(parameters) :
             /\ parameters[k].name = name
             /\ \A j \in 1..(k - 1) : parameters[j].name # name
    ELSE 0

\* The value the map holds for a key, undefined if it has none.
Lookup(params, key) ==
    IF \E k \in 1..Len(params) : params[k].key = key
    THEN (CHOOSE e \in Range(params) : e.key = key).value
    ELSE JUndefined

\* A mutant: the arguments follow the declared parameter order.
RECURSIVE declaredOrderLoop(_, _, _, _)
declaredOrderLoop(params, parameters, k, args) ==
    IF k > Len(parameters) THEN args
    ELSE LET value == Lookup(params, parameters[k].name) IN
         IF (parameters[k].kind = "star" \/ parameters[k].kind = "plus") /\ IsArray(value)
         THEN declaredOrderLoop(params, parameters, k + 1, args \o value.a)
         ELSE IF IsString(value)
         THEN declaredOrderLoop(params, parameters, k + 1, Append(args, value.s))
         ELSE declaredOrderLoop(params, parameters, k + 1, args)

processParametersDeclaredOrder(params, parameters) ==
    declaredOrderLoop(params, parameters, 1, <<>>)

\* part_000 lines 112-123: the loop over Object.entries(params), args so far.
RECURSIVE processEntries(_, _, _, _)
processEntries(params, parameters, k, args) ==
    IF k > Len(params) THEN args
    ELSE LET value == params[k].value
             found == FindIndex(parameters, params[k].key)
         IN IF found = 0
            THEN processEntries(params, parameters, k + 1, args)
            ELSE IF (parameters[found].kind = "star" \/ parameters[found].kind = "plus")
                    /\ IsArray(value)
            THEN processEntries(params, parameters, k + 1, args \o value.a)
            ELSE IF IsString(value)
            THEN processEntries(params, parameters, k + 1, Append(args, value.s))
            ELSE processEntries(params, parameters, k + 1, args)

\* part_000 lines 105-127.
processParameters(params, parameters) == processEntries(params, parameters, 1, <<>>)

\* just.ts lines 88-95: no test that the key names a parameter.
RECURSIVE processTaskEntries(_, _, _, _)
processTaskEntries(params, parameters, k, args) ==
    IF k > Len(params) THEN args
    ELSE LET value == params[k].value
             found == FindIndex(parameters, params[k].key)
         IN IF found # 0 /\ parameters[found].isVarArgs /\ IsArray(value)
            THEN processTaskEntries(params, parameters, k + 1, args \o value.a)
            ELSE IF IsString(value)
            THEN processTaskEntries(params, parameters, k + 1, Append(args, value.s))
            ELSE processTaskEntries(params, parameters, k + 1, args)

\* just.ts lines 82-98.
processParametersTasks(params, parameters) == processTaskEntries(params, parameters, 1, <<>>)

\* ------------------------------------------------------------- validation

\* What the server does with a call's arguments before execute() runs: the
\* tool's z.object(...) must accept them. A field that is absent passes only if
\* optional; a string field takes a string; an array field takes an array of
\* strings of at least min elements; keys that are no field are not looked at.
FieldAccepts(node, value) ==
    IF value.t = "undefined" THEN node.optional
    ELSE IF node.type = "string" THEN IsString(value)
    ELSE IsArray(value) /\ Len(value.a) >= node.min

Validates(schema, params) ==
    \A k \in 1..Len(schema) : FieldAccepts(schema[k].node, Lookup(params, schema[k].key))

\* ---------------------------------------------------------------- executor

\* A mutant: the argument values are interpolated into the command string.
BashCommandInterpolated(recipeName, args) == <<"just ", recipeName, " ">> \o args

\* part_000 line 139, just.ts line 110: the template literal
\* `just ${recipeName} "$@"` handed to bash -l -c, piece by piece.
BashCommand(recipeName, args) == <<"just ", recipeName, " \"$@\"">>

\* part_000 line 139: "--", ...Deno.args, ...args; just.ts line 110: "--", ...args.
BashPositional(args) ==
    IF variant = "structured" THEN <<"--">> \o denoArgs \o args ELSE <<"--">> \o args

\* A mutant: the message of the thrown error is passed on as it is.
ExecuteErrorBare(recipeName, errorMessage) == <<errorMessage>>

\* part_000 line 209, just.ts line 184.
ExecuteError(recipeName, errorMessage) ==
    <<"Failed to execute ", recipeName, ": ", errorMessage>>

\* Text is a sequence of code points.
\* "\nProcess exited with code "
ExitLine ==
    <<10, 80, 114, 111, 99, 101, 115, 115, 32, 101, 120, 105, 116, 101, 100, 32,
      119, 105, 116, 104, 32, 99, 111, 100, 101, 32>>

\* `${code}`: the decimal digits of a number.
RECURSIVE Decimal(_)
Decimal(n) == IF n < 10 THEN <<48 + n>> ELSE Decimal(n \div 10) \o <<48 + (n % 10)>>

\* part_000 line 161, just.ts line 132.
ExitSuffix(code) == ExitLine \o Decimal(code)

\* new TextDecoder().decode(chunk), each chunk on its own (no stream option):
\* an ASCII byte is its character, a two-byte sequence its code point, and a
\* lead byte cut off from its continuation, or a stray continuation byte, is U+FFFD.
RECURSIVE decodeFrom(_, _)
decodeFrom(bytes, k) ==
    IF k > Len(bytes) THEN <<>>
    ELSE IF bytes[k] < 128 THEN <<bytes[k]>> \o decodeFrom(bytes, k + 1)
    ELSE IF bytes[k] \in 194..223 /\ k < Len(bytes) /\ bytes[k + 1] \in 128..191
    THEN <<(bytes[k] - 192) * 64 + (bytes[k + 1] - 128)>> \o decodeFrom(bytes, k + 2)
    ELSE <<65533>> \o decodeFrom(bytes, k + 1)

decode(chunk) == decodeFrom(chunk, 1)

\* part_000 lines 150 and 155: output += decoder.decode(chunk)
AppendOutput(buffer, chunk) == buffer \o decode(chunk)

\* A mutant: only the reader of standard output is awaited.
ReadersJoinedStdoutOnly(c) == c.outDone

\* part_000 lines 147-158: Promise.all of the two readers.
ReadersJoined(c) == c.outDone /\ c.errDone

\* What the recipe writes: the n-th chunk read from its standard output and
\* from its standard error. "ok\n", then a two-byte character cut in two by
\* the pipe, then numbered lines; "e<n>" on standard error.
StdoutChunk(n) ==
    CASE n = 1 -> <<111, 107, 10>>
      [] n = 2 -> <<195>>
      [] n = 3 -> <<169, 10>>
      [] OTHER -> <<48 + (n % 10), 10>>

StderrChunk(n) == <<101, 48 + (n % 10)>>

\* -------------------------------------------------------------- tool calls

IdleCall ==
    [phase |-> "idle", tool |-> "", params |-> <<>>, valid |-> FALSE, args |-> <<>>,
     spawn |-> "none", runnerFound |-> TRUE, code |-> -1]
NoChild ==
    [cmd |-> <<>>, rest |-> <<>>, outN |-> 0, errN |-> 0,
     outDone |-> FALSE, errDone |-> FALSE]
NoResult == [kind |-> "none", text |-> <<>>, message |-> <<>>]

\* The values a client puts in a call's arguments.
RequestValues == {JStr("x"), JArr(<<>>), JArr(<<"a", "b">>)}

\* The argument maps a client sends to a tool: up to MaxKeys distinct keys
\* among the tool's fields and one key that is no field.
RequestKeys(tool) == {tool.params[k].name : k \in 1..Len(tool.params)} \cup {"bogus"}

RequestMaps(tool) ==
    {m \in SeqsOf([key : RequestKeys(tool), value : RequestValues], 0, MaxKeys) :
        \A j, k \in 1..Len(m) : j # k => m[j].key # m[k].key}

ToolNames == {tools[k].name : k \in 1..Len(tools)}

\* tools.find((tool) => tool.name === request.params.name)
FindTool(name) == tools[FindIndex(tools, name)]

\* execute()'s call of processParameters (part_000 line 202, just.ts line 177).
Marshalled(tool, params) ==
    IF variant = "structured"
    THEN processParameters(params, tool.params)
    ELSE processParametersTasks(params, tool.params)

\* The exit statuses of a spawned bash: the recipe's, or 127 when bash finds no just.
ExitCodes(runnerFound) == IF runnerFound THEN {0, 1} ELSE {127}

\* How spawning bash in PROJECT fails, and the message of the error thrown.
SpawnFailures == {"shellNotFound", "cwdNotFound"}
SpawnErrorMessage(w) ==
    IF w = "shellNotFound" THEN "Failed to spawn 'bash': entity not found"
    ELSE "Failed to spawn 'bash': No such cwd"

\* A call whose arguments the tool's schema rejects: execute() is not run.
CallRejected ==
    /\ pc = "serving" /\ call.phase = "idle"
    /\ \E name \in ToolNames : \E params \in RequestMaps(FindTool(name)) :
        /\ ~Validates(FindTool(name).parameters, params)
        /\ call' = [IdleCall EXCEPT !.phase = "returned", !.tool = name, !.params = params]
        /\ result' = [NoResult EXCEPT !.kind = "invalid"]
    /\ child' = NoChild /\ output' = <<>> /\ arrived' = <<>>
    /\ UNCHANGED <<configVars, startVars, marshal>>

\* part_000 line 176, just.ts line 153: the diagnostic tool resolves to PROJECT.
CallDebugTool ==
    /\ pc = "serving" /\ call.phase = "idle"
    /\ \E name \in ToolNames : \E params \in RequestMaps(FindTool(name)) :
        /\ FindTool(name).kind = "debug"
        /\ Validates(FindTool(name).parameters, params)
        /\ call' = [IdleCall EXCEPT !.phase = "returned", !.tool = name,
                                    !.params = params, !.valid = TRUE]
        /\ result' = [NoResult EXCEPT !.kind = "cwd", !.message = <<"PROJECT">>]
    /\ child' = NoChild /\ output' = <<>> /\ arrived' = <<>>
    /\ UNCHANGED <<configVars, startVars, marshal>>

\* part_000 lines 200-211 with 136-143: the arguments are marshalled, spawn()
\* throws, and the closure rethrows with the recipe's name in front.
SpawnFails ==
    /\ pc = "serving" /\ call.phase = "idle"
    /\ \E name \in ToolNames : \E params \in RequestMaps(FindTool(name)) :
       \E w \in SpawnFailures :
        /\ FindTool(name).kind = "recipe"
        /\ Validates(FindTool(name).parameters, params)
        /\ call' = [IdleCall EXCEPT !.phase = "returned", !.tool = name,
                                    !.params = params, !.valid = TRUE,
                                    !.args = Marshalled(FindTool(name), params),
                                    !.spawn = w]
        /\ result' = [NoResult EXCEPT !.kind = "error",
                                      !.message = ExecuteError(name, SpawnErrorMessage(w))]
    /\ child' = NoChild /\ output' = <<>> /\ arrived' = <<>>
    /\ UNCHANGED <<configVars, startVars, marshal>>

\* part_000 lines 200-203 with 136-143: the arguments are marshalled and bash
\* is spawned with both streams piped.
Spawn ==
    /\ pc = "serving" /\ call.phase = "idle"
    /\ \E name \in ToolNames : \E params \in RequestMaps(FindTool(name)) :
       \E found \in BOOLEAN :
        /\ FindTool(name).kind = "recipe"
        /\ Validates(FindTool(name).parameters, params)
        /\ LET args == Marshalled(FindTool(name), params) IN
           /\ call' = [IdleCall EXCEPT !.phase = "running", !.tool = name,
                                       !.params = params, !.valid = TRUE, !.args = args,
                                       !.spawn = "spawned", !.runnerFound = found]
           /\ child' = [NoChild EXCEPT !.cmd = BashCommand(name, args),
                                       !.rest = BashPositional(args)]
    /\ result' = NoResult /\ output' = <<>> /\ arrived' = <<>>
    /\ UNCHANGED <<configVars, startVars, marshal>>

\* part_000 lines 149-151: the next chunk of standard output.
ReadStdout ==
    /\ call.phase = "running" /\ ~child.outDone /\ child.outN < MaxChunks
    /\ LET chunk == StdoutChunk(child.outN + 1) IN
       /\ output' = AppendOutput(output, chunk)
       /\ arrived' = Append(arrived, [stream |-> "stdout", chunk |-> chunk])
    /\ child' = [child EXCEPT !.outN = @ + 1]
    /\ UNCHANGED <<configVars, startVars, call, result, marshal>>

\* part_000 lines 154-156: the next chunk of standard error.
ReadStderr ==
    /\ call.phase = "running" /\ ~child.errDone /\ child.errN < MaxChunks
    /\ LET chunk == StderrChunk(child.errN + 1) IN
       /\ output' = AppendOutput(output, chunk)
       /\ arrived' = Append(arrived, [stream |-> "stderr", chunk |-> chunk])
    /\ child' = [child EXCEPT !.errN = @ + 1]
    /\ UNCHANGED <<configVars, startVars, call, result, marshal>>

\* The for await over child.stdout ends.
EndStdout ==
    /\ call.phase = "running" /\ ~child.outDone
    /\ child' = [child EXCEPT !.outDone = TRUE]
    /\ UNCHANGED <<configVars, startVars, call, output, arrived, result, marshal>>

\* The for await over child.stderr ends.
EndStderr ==
    /\ call.phase = "running" /\ ~child.errDone
    /\ child' = [child EXCEPT !.errDone = TRUE]
    /\ UNCHANGED <<configVars, startVars, call, output, arrived, result, marshal>>

\* part_000 lines 160-163: once both readers are done the status is awaited,
\* the exit line appended and the buffer returned.
ReturnOutput ==
    /\ call.phase = "running" /\ ReadersJoined(child)
    /\ \E code \in ExitCodes(call.runnerFound) :
        /\ output' = output \o ExitSuffix(code)
        /\ call' = [call EXCEPT !.phase = "returned", !.code = code]
        /\ result' = [NoResult EXCEPT !.kind = "text", !.text = output \o ExitSuffix(code)]
    /\ UNCHANGED <<configVars, startVars, child, arrived, marshal>>

\* The result, or the error, goes back to the client; the call's locals are gone.
Respond ==
    /\ call.phase = "returned"
    /\ call' = IdleCall /\ child' = NoChild /\ output' = <<>> /\ arrived' = <<>>
    /\ result' = NoResult
    /\ UNCHANGED <<configVars, startVars, marshal>>

\* ------------------------------------------- processParameters on its own

NoMarshal == [params |-> <<>>, parameters |-> <<>>, args |-> <<>>, done |-> FALSE]

Marshal ==
    /\ pc = "harness" /\ variant = "structured" /\ ~marshal.done
    /\ marshal' = [marshal EXCEPT
                      !.args = processParameters(marshal.params, marshal.parameters),
                      !.done = TRUE]
    /\ UNCHANGED <<configVars, startVars, callVars>>

MarshalTasks ==
    /\ pc = "harness" /\ variant = "text" /\ ~marshal.done
    /\ marshal' = [marshal EXCEPT
                      !.args = processParametersTasks(marshal.params, marshal.parameters),
                      !.done = TRUE]
    /\ UNCHANGED <<configVars, startVars, callVars>>

\* ----------------------------------------------------------------- inputs

Param(name, kind, default) ==
    [name |-> name, kind |-> kind, default |-> default, export |-> FALSE]
EnvParam(name, kind, default) ==
    [name |-> name, kind |-> kind, default |-> default, export |-> TRUE]
Recipe(name, parameters, doc) == [name |-> name, parameters |-> parameters, doc |-> doc]

\* How the dump gives the default (arch + "-unknown-unknown"): an array.
ExpressionDefault == JArr(<<"concatenate", "variable", "arch", "-unknown-unknown">>)

\* The recipes of the README's example Justfile.
ReadmeRecipes ==
    {Recipe("build", <<>>, JStr("Build the project.")),
     Recipe("test", <<Param("test_files", "star", JNull)>>, JStr("Run a set of test files")),
     Recipe("deploy", <<Param("target", "singular", JStr("staging"))>>, JNull),
     Recipe("check", <<Param("files", "plus", JStr("just.ts"))>>, JStr("Type check and lint"))}

\* Recipes of the repository's own Justfile.
JustfileRecipes ==
    {Recipe("test_simple", <<>>, JNull),
     Recipe("test_multiple_args",
            <<Param("first", "singular", JNull),
              Param("second", "singular", JStr("second_default"))>>, JStr("4.")),
     Recipe("test_variable_with_required",
            <<Param("arg", "singular", JNull), Param("ARGS", "star", JNull)>>, JStr("6.")),
     Recipe("test_minimum_variable", <<Param("ARGS", "plus", JNull)>>, JStr("7.")),
     Recipe("test_env_var", <<EnvParam("ENV_VAR", "singular", JStr("default_env"))>>, JStr("9.")),
     Recipe("test_variable_expression_args",
            <<Param("ARGS", "plus", ExpressionDefault)>>, JStr("11.")),
     Recipe("at_least_one", <<Param("arg", "singular", JNull), Param("ARGS", "plus", JNull)>>,
            JNull)}

DistinctNames(q) == \A j, k \in 1..Len(q) : j # k => q[j].name # q[k].name

\* Dumps of up to MaxRecipes of the README's recipes, in any order.
ReadmeDumps == {q \in SeqsOf(ReadmeRecipes, 0, MaxRecipes) : DistinctNames(q)}

\* Generated parameter lists: up to MaxParams parameters, any kind and any
\* default; as in just, only the last parameter may be variadic.
ParamNames == <<"arg", "ARGS", "opt", "more">>
Kinds == {"singular", "star", "plus"}
Defaults == {JNull, JStr(""), JStr("staging"), ExpressionDefault}

ParamLists ==
    UNION {
        {[k \in 1..n |-> Param(ParamNames[k], ks[k], ds[k])] :
            ks \in {f \in [1..n -> Kinds] : \A k \in 1..(n - 1) : f[k] = "singular"},
            ds \in [1..n -> Defaults]}
        : n \in 0..MaxParams}

\* What just printed and how it ended.
RunnerMissing ==
    [found |-> FALSE, code |-> 0, json |-> "none", hasRecipes |-> FALSE,
     recipes |-> <<>>, listing |-> <<>>]
Dumped(code, json, hasRecipes, rs) ==
    [found |-> TRUE, code |-> code, json |-> json, hasRecipes |-> hasRecipes,
     recipes |-> rs, listing |-> <<>>]
Listed(code, lines) ==
    [found |-> TRUE, code |-> code, json |-> "none", hasRecipes |-> FALSE,
     recipes |-> <<>>, listing |-> lines]

\* Standard output that is no dump: not JSON (empty, as a failed just leaves
\* it), the JSON null, a JSON object without recipes.
BadDumps(code) ==
    {Dumped(code, "invalid", FALSE, <<>>), Dumped(code, "null", FALSE, <<>>),
     Dumped(code, "object", FALSE, <<>>)}

RunnerCodes == {0, 1}

\* The fields of an allow-list variable and the values of a flag variable.
FieldStrings == {"", " ", "build", " test "}
AllowEnvs == {Unset} \cup {SetTo(f) : f \in SeqsOf(FieldStrings, 1, MaxFields)}
FlagValues == {JUndefined, JStr(""), JStr("1")}

Env(allowed, debug, show) ==
    [ALLOWED |-> allowed, ENABLE_DEBUG_TOOL |-> debug, SHOW_RECIPES |-> show]

\* Lines of `just -l`.
LinePool ==
    {<<"Available", "recipes:">>, <<>>, <<"build">>, <<"run-all">>,
     <<"test", "*test_files", "#", "Run", "tests">>,
     <<"deploy", "target", "$env">>}
Listings == SeqsOf(LinePool, 0, MaxLines)

\* ------------------------------------------------------------ specifications

\* The state of a process that has run nothing yet.
Fresh ==
    /\ pc = IF variant = "structured" THEN "debug" ELSE "log"
    /\ recipes = Undefined /\ idx = 1 /\ tools = <<>> /\ log = <<>> /\ exitCode = -1
    /\ call = IdleCall /\ child = NoChild /\ output = <<>> /\ arrived = <<>>
    /\ result = NoResult /\ marshal = NoMarshal

\* Startup under every environment with the README's recipes, and under the
\* default environment with every generated parameter list.
InitStartup ==
    /\ \/ /\ variant = "structured"
          /\ denoArgs = <<>>
          /\ \/ /\ env \in {Env(a, d, s) : a \in AllowEnvs, d \in FlagValues, s \in FlagValues}
                /\ just \in {RunnerMissing}
                      \cup UNION {BadDumps(c) : c \in RunnerCodes}
                      \cup {Dumped(c, "object", TRUE, q) : c \in RunnerCodes, q \in ReadmeDumps}
             \/ /\ env \in {Env(Unset, JUndefined, s) : s \in {JUndefined, JStr("1")}}
                /\ just \in {Dumped(0, "object", TRUE, <<Recipe("r", ps, JNull)>>) :
                                ps \in ParamLists}
       \/ /\ variant = "text"
          /\ denoArgs = <<>>
          /\ env \in {Env(a, d, JUndefined) : a \in AllowEnvs, d \in FlagValues}
          /\ just \in {RunnerMissing} \cup {Listed(c, l) : c \in RunnerCodes, l \in Listings}
    /\ Fresh

NextStartup ==
    \/ LogStartup
    \/ AddDebugTool
    \/ getJustRecipes
    \/ ObjectEntriesThrows
    \/ RegisterRecipe
    \/ ShowRecipesExit
    \/ StartServer
    \/ getJustTasks
    \/ RegisterTask
    \/ StartTaskServer

SpecStartup == InitStartup /\ [][NextStartup]_vars

\* The whole program, startup and tool calls, on the repository's own recipes.
Init ==
    /\ \/ /\ variant = "structured"
          /\ \/ /\ env = Env(Unset, JUndefined, JUndefined)
                /\ denoArgs = <<>>
                /\ just \in {Dumped(0, "object", TRUE, <<r>>) : r \in JustfileRecipes}
                      \cup {RunnerMissing} \cup BadDumps(1)
             \/ /\ env \in {Env(a, d, s) : a \in {Unset, SetTo(<<"build", " test ">>)},
                                          d \in {JUndefined, JStr("1")},
                                          s \in {JUndefined, JStr("1")}}
                /\ denoArgs \in {<<>>, <<"--justfile", "j">>}
                /\ just = Dumped(0, "object", TRUE,
                                 <<Recipe("build", <<>>, JNull),
                                   Recipe("test", <<Param("test_files", "star", JNull)>>, JNull)>>)
       \/ /\ variant = "text"
          /\ denoArgs = <<>>
          /\ env \in {Env(a, d, JUndefined) : a \in {Unset, SetTo(<<"test">>)},
                                             d \in {JUndefined, JStr("1")}}
          /\ just \in {RunnerMissing,
                       Listed(0, <<<<"Available", "recipes:">>, <<"build">>,
                                   <<"test", "*test_files", "#", "Run", "tests">>,
                                   <<"deploy", "target", "$env">>>>)}
    /\ Fresh

Next ==
    \/ NextStartup
    \/ CallRejected
    \/ CallDebugTool
    \/ SpawnFails
    \/ Spawn
    \/ ReadStdout
    \/ ReadStderr
    \/ EndStdout
    \/ EndStderr
    \/ ReturnOutput
    \/ Respond

Spec == Init /\ [][Next]_vars

\* processParameters of either variant on every value map and parameter list.
MarshalValues == {JStr("x"), JArr(<<>>), JArr(<<"a", "b">>), JNum("7")}
MarshalKeys == {ParamNames[k] : k \in 1..MaxParams} \cup {"bogus"}
MarshalMaps ==
    {m \in SeqsOf([key : MarshalKeys, value : MarshalValues], 0, MaxKeys) :
        \A j, k \in 1..Len(m) : j # k => m[j].key # m[k].key}
MarshalParameters ==
    UNION {{[k \in 1..n |-> Param(ParamNames[k], ks[k], JNull)] : ks \in [1..n -> Kinds]}
           : n \in 0..MaxParams}
MarshalTaskParameters ==
    UNION {{[k \in 1..n |-> [name |-> ParamNames[k], isVarArgs |-> vs[k]]] :
               vs \in [1..n -> BOOLEAN]}
           : n \in 0..MaxParams}

InitMarshal ==
    /\ variant \in {"structured", "text"}
    /\ env = Env(Unset, JUndefined, JUndefined) /\ denoArgs = <<>> /\ just = RunnerMissing
    /\ pc = "harness"
    /\ recipes = Undefined /\ idx = 1 /\ tools = <<>> /\ log = <<>> /\ exitCode = -1
    /\ call = IdleCall /\ child = NoChild /\ output = <<>> /\ arrived = <<>>
    /\ result = NoResult
    /\ marshal \in {[NoMarshal EXCEPT !.params = m, !.parameters = ps] :
                      m \in MarshalMaps,
                      ps \in IF variant = "structured" THEN MarshalParameters
                             ELSE MarshalTaskParameters}

NextMarshal ==
    \/ Marshal
    \/ MarshalTasks

SpecMarshal == InitMarshal /\ [][NextMarshal]_vars

\* ------------------------------------------------------------------ claims

\* The recipe tools among the registered tools, in order.
RecipeTools == SelectSeq(tools, LAMBDA t : t.kind = "recipe")
NamesOf(q) == [k \in 1..Len(q) |-> q[k].name]

\* C1: The command string handed to bash -l -c is `just <recipe> "$@"`, fixed
\* by the recipe's name whatever the arguments are, and the marshalled
\* arguments are the last positional arguments, after "--" (and, in the
\* structured variant, after Deno.args), in marshalled order and unchanged.
InjectionDefence ==
    call.spawn = "spawned" =>
        /\ child.cmd = <<"just ", call.tool, " \"$@\"">>
        /\ child.rest[1] = "--"
        /\ Len(child.rest) = 1 + Len(call.args)
                               + (IF variant = "structured" THEN Len(denoArgs) ELSE 0)
        /\ SubSeq(child.rest, Len(child.rest) - Len(call.args) + 1, Len(child.rest)) = call.args
        /\ \A k \in 2..(Len(child.rest) - Len(call.args)) : child.rest[k] = denoArgs[k - 1]

\* C1's case: a recipe spawned with two arguments behind Deno.args.
InjectionDefenceWitness ==
    /\ variant = "structured" /\ call.spawn = "spawned"
    /\ denoArgs # <<>> /\ call.args = <<"a", "b">>

\* C2: Once the server serves, with an allow-list every recipe tool's name is
\* one of the list's trimmed fields, and without one the recipe tools are
\* exactly the recipes the reader returned, in order. A variable that is blank
\* is no allow-list in the structured variant and the list of the one name ""
\* in the text variant.
AllowListConfigured ==
    /\ env.ALLOWED.set
    /\ variant = "structured" => ~TrimIsEmpty(env.ALLOWED.fields)

\* The names of the recipes the runner reported: the dump's, or those of the
\* listing's lines that the pattern matches.
ReaderNames ==
    IF variant = "structured" THEN NamesOf(just.recipes)
    ELSE IF ~just.found THEN <<>>
    ELSE LET matched == SelectSeq(just.listing, LineMatches)
         IN [k \in 1..Len(matched) |-> MatchedName(matched[k])]

ExpressionDefaultOptional ==
    variant = "structured" =>
        \A k \in 1..Len(RecipeTools) : \A j \in 1..Len(RecipeTools[k].params) :
            LET param == RecipeTools[k].params[j]
                field == RecipeTools[k].parameters[j]
            IN IsArray(param.default) =>
                /\ field.key = param.name
                /\ field.node.optional
                /\ field.node.min = 0
                /\ field.node.type = IF param.kind = "singular" THEN "string" ELSE "array"

\* C3's case: a registered recipe with a plus parameter defaulting to an expression.
ExpressionDefaultOptionalWitness ==
    /\ variant = "structured"
    /\ \E k \in 1..Len(RecipeTools) : \E j \in 1..Len(RecipeTools[k].params) :
          /\ RecipeTools[k].params[j].kind = "plus"
          /\ IsArray(RecipeTools[k].params[j].default)

\* The tool a call names, while the call's record lasts.
CalledTool == FindTool(call.tool)
CalledRecipe == call.tool # "" /\ CalledTool.kind = "recipe"

\* C4: A plus parameter without default gets a required array field of at
\* least one string. A call that omits it or gives it the empty array is
\* rejected: nothing is marshalled and no process is spawned. A call giving it
\* a non-empty array, and nothing else, to a recipe with no other parameter is
\* accepted, and whenever such a one-key call is accepted the arguments are
\* the array's elements in order.
NonEmptyPlusRequired ==
    (variant = "structured" /\ CalledRecipe) =>
        \A j \in 1..Len(CalledTool.params) :
            LET param == CalledTool.params[j]
                node == CalledTool.parameters[j].node
                value == Lookup(call.params, param.name)
            IN (param.kind = "plus" /\ param.default = JNull) =>
                /\ node.type = "array" /\ ~node.optional /\ node.min = 1
                /\ (value = JUndefined \/ value = JArr(<<>>)) =>
                      /\ ~call.valid /\ call.args = <<>> /\ call.spawn = "none"
                      /\ child = NoChild /\ result.kind = "invalid"
                /\ (IsArray(value) /\ value.a # <<>> /\ call.params = <<Entry(param.name, value)>>) =>
                      /\ Len(CalledTool.params) = 1 => call.valid
                      /\ call.valid => call.args = value.a

\* C4's case: test_minimum_variable called with ARGS: [] and rejected.
NonEmptyPlusRequiredWitness ==
    /\ variant = "structured" /\ call.tool = "test_minimum_variable"
    /\ call.params = <<Entry("ARGS", JArr(<<>>))>>
    /\ result.kind = "invalid"

\* C5: A singular or plus parameter's field is optional exactly when the
\* parameter has a literal default, the empty string included, and required
\* exactly when it has none.
LiteralDefaultOptional ==
    variant = "structured" =>
        \A k \in 1..Len(RecipeTools) : \A j \in 1..Len(RecipeTools[k].params) :
            LET param == RecipeTools[k].params[j]
                node == RecipeTools[k].parameters[j].node
            IN (param.kind \in {"singular", "plus"} /\ ~IsArray(param.default)) =>
                (node.optional <=> IsString(param.default))

\* The contribution of one entry of a value map, by the rule of the
\* marshaller: the elements of an array given to a star or plus parameter, a
\* string as it is, nothing for any other value.
IsVariadic(parameter) ==
    IF variant = "structured" THEN parameter.kind \in {"star", "plus"} ELSE parameter.isVarArgs

Contribution(entry, parameters) ==
    LET declared == CHOOSE q \in Range(parameters) : q.name = entry.key
    IN IF IsVariadic(declared) /\ IsArray(entry.value) THEN entry.value.a
       ELSE IF IsString(entry.value) THEN <<entry.value.s>>
       ELSE <<>>

RECURSIVE Flatten(_)
Flatten(qs) == IF qs = <<>> THEN <<>> ELSE Head(qs) \o Flatten(Tail(qs))

\* The reference: the contributions of the entries in the map's own order.
Reference(params, parameters) ==
    Flatten([k \in 1..Len(params) |-> Contribution(params[k], parameters)])

Declared(parameters, key) == \E k \in 1..Len(parameters) : parameters[k].name = key

\* C6: A key that names no declared parameter contributes nothing: the
\* arguments are those of the map without its unknown keys.
UnknownKeysDropped ==
    marshal.done =>
        marshal.args =
            Reference(SelectSeq(marshal.params,
                                LAMBDA e : Declared(marshal.parameters, e.key)),
                      marshal.parameters)

\* C7: On a value map whose keys are all declared, processParameters gives the
\* reference's arguments: entry by entry in the map's own key order.
MarshalMatchesReference ==
    (marshal.done /\ \A k \in 1..Len(marshal.params) :
                        Declared(marshal.parameters, marshal.params[k].key)) =>
        marshal.args = Reference(marshal.params, marshal.parameters)

\* C7's case: the variadic parameter's key is given first, before the
\* parameter declared first; the arguments come in the given order.
MarshalMatchesReferenceWitness ==
    /\ marshal.done /\ Len(marshal.parameters) = 2
    /\ marshal.params = <<Entry("ARGS", JArr(<<"a", "b">>)), Entry("arg", JStr("x"))>>
    /\ marshal.args = <<"a", "b", "x">>

\* The last n elements of a sequence.
Last(q, n) == SubSeq(q, Len(q) - n + 1, Len(q))

\* C8 as claimed: a call that passed validation ends in an error exactly when
\* the spawn failed, a missing runner binary being a failed spawn.
MissingRunnerIsAnError ==
    (call.phase = "returned" /\ call.valid /\ CalledRecipe) =>
        (result.kind = "error" <=> (call.spawn \in SpawnFailures \/ ~call.runnerFound))

\* C8, amended: a call that passed validation ends in an error exactly when
\* spawning bash failed (no bash, or no such PROJECT directory); the error's
\* message is the cause behind "Failed to execute <recipe>: " and there is no
\* output. Once bash is spawned the call returns text ending in the exit line
\* for whatever the status is; a missing runner is status 127.
SpawnFailureIsTheOnlyError ==
    (call.phase = "returned" /\ call.valid /\ CalledRecipe) =>
        /\ result.kind = "error" <=> call.spawn \in SpawnFailures
        /\ call.spawn \in SpawnFailures =>
              /\ result.message = <<"Failed to execute ", call.tool, ": ",
                                    SpawnErrorMessage(call.spawn)>>
              /\ result.text = <<>> /\ output = <<>>
        /\ call.spawn = "spawned" =>
              /\ result.kind = "text"
              /\ call.code \in {0, 1, 127}
              /\ ~call.runnerFound => call.code = 127
              /\ Len(result.text) >= Len(ExitSuffix(call.code))
              /\ Last(result.text, Len(ExitSuffix(call.code))) = ExitSuffix(call.code)

\* C8's case: bash is spawned, finds no just, and the call returns text.
SpawnFailureIsTheOnlyErrorWitness ==
    /\ call.phase = "returned" /\ call.spawn = "spawned" /\ ~call.runnerFound
    /\ result.kind = "text" /\ call.code = 127

\* The decoded chunks, in the order they arrived.
RECURSIVE DecodeAll(_)
DecodeAll(chunks) ==
    IF chunks = <<>> THEN <<>> ELSE decode(Head(chunks).chunk) \o DecodeAll(Tail(chunks))

OfStream(name) == SelectSeq(arrived, LAMBDA c : c.stream = name)

\* C9: While the readers run the buffer is the decoded chunks in arrival
\* order, each stream's chunks in the stream's order. The returned string is
\* that followed by the exit line, once, and it is returned only when both
\* streams have ended.
OutputInArrivalOrder ==
    /\ call.phase = "running" => output = DecodeAll(arrived)
    /\ call.spawn = "spawned" =>
          /\ OfStream("stdout") = [k \in 1..child.outN |-> [stream |-> "stdout", chunk |-> StdoutChunk(k)]]
          /\ OfStream("stderr") = [k \in 1..child.errN |-> [stream |-> "stderr", chunk |-> StderrChunk(k)]]
          /\ Len(arrived) = child.outN + child.errN
    /\ (call.phase = "returned" /\ call.spawn = "spawned") =>
          /\ child.outDone /\ child.errDone
          /\ result.kind = "text"
          /\ result.text = DecodeAll(arrived) \o ExitSuffix(call.code)

\* C9's case: standard output "ok\n", nothing on standard error, status 0:
\* the result is "ok\n\nProcess exited with code 0".
OutputInArrivalOrderWitness ==
    /\ call.phase = "returned"
    /\ arrived = <<[stream |-> "stdout", chunk |-> <<111, 107, 10>>]>>
    /\ result.text = <<111, 107, 10, 10, 80, 114, 111, 99, 101, 115, 115, 32, 101, 120,
                       105, 116, 101, 100, 32, 119, 105, 116, 104, 32, 99, 111, 100, 101,
                       32, 48>>

\* C10 as claimed: a runner that is missing, that exits non-zero, or whose
\* output is no JSON never leads to a recipe tool or to a serving server.
NonZeroRunnerIsFatal ==
    (variant = "structured" /\ (~just.found \/ just.code # 0 \/ just.json = "invalid")) =>
        RecipeTools = <<>> /\ pc # "serving"

\* C10, amended: when the runner cannot be started or its output is no JSON
\* value holding recipes, no recipe tool is registered, the server never
\* serves, and the process ends with code 1 after writing the cause on
\* standard error. The runner's exit status is not looked at.
NoDump == ~just.found \/ just.json \in {"invalid", "null"} \/ ~just.hasRecipes

StartupFatal ==
    (variant = "structured" /\ NoDump) =>
        /\ RecipeTools = <<>> /\ idx = 1
        /\ pc \in {"debug", "read", "loop", "exited"}
        /\ pc = "loop" => ~recipes.defined
        /\ pc = "exited" =>
              /\ exitCode = 1
              /\ log # <<>> /\ log[Len(log)].out = "stderr"

\* C10's case: just fails with status 1 and prints nothing; the process has
\* ended with code 1.
StartupFatalWitness ==
    /\ variant = "structured" /\ just.found /\ just.code = 1 /\ just.json = "invalid"
    /\ pc = "exited" /\ exitCode = 1

\* What the process has written on its standard output, in order.
Shown == SelectSeq(log, LAMBDA e : e.out = "stdout")

\* The first n recipes of the dump that the allow-list lets through.
Survivors(n) ==
    SelectSeq(SubSeq(recipes.list, 1, n),
              LAMBDA r : AllowListConfigured =>
                             r.name \in {Trim(f) : f \in Range(env.ALLOWED.fields)})

\* C11 as claimed: with SHOW_RECIPES set, a structured process that has ended
\* after reading the dump has ended with code 0, has registered no recipe
\* tool, and has printed the schema of every recipe of the dump, whatever the
\* allow-list is.
ShowRecipesPrintsEveryRecipe ==
    (variant = "structured" /\ Truthy(env.SHOW_RECIPES) /\ recipes.defined /\ pc = "exited") =>
        /\ exitCode = 0 /\ RecipeTools = <<>>
        /\ Shown = [k \in 1..Len(recipes.list) |-> ShownRecipe(recipes.list[k])]

\* C11, amended: with SHOW_RECIPES set to a non-empty value, the structured
\* process registers no recipe tool and never serves, whatever the allow-list
\* and the debug tool settings; the only tool there can be is cwd. Once the
\* dump is read it prints, in the dump's order, one entry for every recipe
\* that the allow-list lets through (every recipe when there is no list) and
\* for no other; the entry's schema has the recipe's parameters as its
\* properties, in declaration order, and the fields that are not optional as
\* its required keys. It then ends with code 0; it ends with code 1 when there
\* is no dump. Without SHOW_RECIPES, or with it empty, nothing is printed
\* on standard output and the process never ends with code 0.
ShowRecipesMode ==
    variant = "structured" =>
        /\ Truthy(env.SHOW_RECIPES) =>
              /\ RecipeTools = <<>> /\ pc # "serving"
              /\ tools = IF Truthy(env.ENABLE_DEBUG_TOOL) /\ pc # "debug"
                         THEN <<cwdTool>> ELSE <<>>
              /\ ~recipes.defined => Shown = <<>>
              /\ recipes.defined =>
                    /\ Len(Shown) = Len(Survivors(idx - 1))
                    /\ \A k \in 1..Len(Shown) :
                          LET r == Survivors(idx - 1)[k] IN
                          /\ Shown[k].recipe = r
                          /\ Shown[k].text = <<"recipeName", r.name>>
                          /\ Shown[k].schema.type = "object"
                          /\ NamesOf([j \in 1..Len(r.parameters) |->
                                        [name |-> Shown[k].schema.properties[j].key]])
                                = NamesOf(r.parameters)
                          /\ Shown[k].schema.required =
                                NamesOf(SelectSeq(r.parameters, LAMBDA q :
                                    ~createParameterSchema(q, r.name).optional))
              /\ pc = "exited" =>
                    IF recipes.defined
                    THEN exitCode = 0 /\ idx = Len(recipes.list) + 1
                    ELSE exitCode = 1
        /\ ~Truthy(env.SHOW_RECIPES) =>
              /\ Shown = <<>>
              /\ pc = "exited" => exitCode = 1

\* C11's case: SHOW_RECIPES, an allow-list and the debug tool are all set; of
\* a dump of two recipes one is printed, and the process has ended with code 0.
ShowRecipesModeWitness ==
    /\ variant = "structured" /\ Truthy(env.SHOW_RECIPES)
    /\ AllowListConfigured /\ Truthy(env.ENABLE_DEBUG_TOOL)
    /\ pc = "exited" /\ exitCode = 0
    /\ recipes.defined /\ Len(recipes.list) = 2 /\ Len(Shown) = 1
    /\ tools = <<cwdTool>>

\* What `just -l` prints: the heading "Available recipes:", then one line for
\* each recipe, its name followed by its parameter tokens and, behind "#", its
\* doc comment. A blank line and the heading are not recipes.
Heading == <<"Available", "recipes:">>
ListedRecipes == SelectSeq(just.listing, LAMBDA l : l # <<>> /\ l # Heading)

\* The parameter tokens of a recipe's line, in declaration order, without
\* their "$" or "*" marker.
StrippedTokens(line) ==
    LET tokens == SubSeq(line, 2, FirstHash(line) - 1)
    IN [k \in 1..Len(tokens) |->
           IF StartsWith(tokens[k], "$") \/ StartsWith(tokens[k], "*")
           THEN Slice1(tokens[k]) ELSE tokens[k]]

\* C12: In the text variant, whatever `just -l` printed, every registered
\* tool other than cwd is named after a recipe of the listing, and the tools
\* are, one for one and in order, the listed recipes that pass the
\* allow-list, each with its parameter tokens, markers stripped, as parameters.
ToolsAreTheListedRecipes ==
    (variant = "text" /\ pc = "serving" /\ just.found) =>
        LET survivors == SelectSeq(ListedRecipes,
                LAMBDA l : ALLOWED_TASKS.isNull \/ Includes(ALLOWED_TASKS.list, l[1]))
        IN /\ \A k \in 1..Len(RecipeTools) :
                  \E j \in 1..Len(ListedRecipes) : RecipeTools[k].name = ListedRecipes[j][1]
           /\ Len(RecipeTools) = Len(survivors)
           /\ \A k \in 1..Len(RecipeTools) :
                  /\ RecipeTools[k].name = survivors[k][1]
                  /\ NamesOf(RecipeTools[k].params) = StrippedTokens(survivors[k])
                  /\ NamesOf([j \in 1..Len(RecipeTools[k].parameters) |->
                                 [name |-> RecipeTools[k].parameters[j].key]])
                        = StrippedTokens(survivors[k])

====
